---- MODULE Spec2Model ----
(***************************************************************************)
(* A model of leerdatos.py: main() as a state machine, one action per      *)
(* statement group of the script.  The CSV file is a sequence of lines,    *)
(* each line a sequence of one-character strings; pd.read_csv is modelled  *)
(* by what the C tokenizer does with a delimiter (header row, implicit     *)
(* index, padding of short rows, "Expected n fields, saw m" on a long      *)
(* row, EmptyDataError on an empty file) and by pandas' column type        *)
(* inference (int64 / float64 / object).  DataFrame.describe(include=...)  *)
(* raises ValueError when no column has a selected dtype; main() catches    *)
(* nothing after the load, so that exception ends the run ("crashed").      *)
(***************************************************************************)
EXTENDS Naturals, Sequences, FiniteSets

VARIABLES
  pc,           \* position of main()
  importError,  \* environment: the first import of lines 24-26 that fails, or "none"
  exists,       \* environment: datos_sinteticos.csv exists beside the script
  file,         \* environment: the lines of datos_sinteticos.csv
  dirExists,    \* file system: ./output exists
  probed,       \* csv_path.exists() has been evaluated
  attempts,     \* the delimiters pd.read_csv has been called with, in order
  mkdirCalled,  \* out_dir.mkdir(exist_ok=True) has been called
  df,           \* the DataFrame (NoDf before the load)
  out,          \* the report sections printed to standard output, in order
  dup_count,    \* the value printed on the "Filas duplicadas" line (0 before)
  dupExamples,  \* the rows printed under "Ejemplo de filas duplicadas"
  col,          \* index into num_cols of the plotting loop
  figs,         \* number of open matplotlib figures
  written,      \* the image files saved into ./output, in order
  exc           \* the exception that left main() uncaught, or "none"

vars == <<pc, importError, exists, file, dirExists, probed, attempts, mkdirCalled,
          df, out, dup_count, dupExamples, col, figs, written, exc>>

----------------------------------------------------------------------------
(* Bounds of the inputs *)

\* Longest file drawn from LinePool, in lines (header included).
MaxLines == 3

\* Longest file drawn from DupLinePool, in lines (header included).
MaxDupLines == 8

\* The lines a file is made of.  "1" and "2" are digits, "x" is a letter.
LinePool ==
  { <<"1">>,
    <<"x">>,
    <<"1", ",", "x">>,
    <<"2", ",", "x">>,
    <<"1", ",", "1">>,
    <<"1", ",", "1", ",", "x">>,
    <<"1", ";", "x">>,
    <<"2", ";", "x", ",", "x">>,
    <<"1", ",", "1", ";", "x">>,
    <<"1", ",">> }

\* Two lines for long files, so that more than DupExampleRows duplicates occur.
DupLinePool == { <<"1", ",", "x">>, <<"2", ",", "x">> }

SeqsUpTo(S, n) == UNION { [1..k -> S] : k \in 0..n }

Files == SeqsUpTo(LinePool, MaxLines) \cup SeqsUpTo(DupLinePool, MaxDupLines)

Libs == {"pandas", "matplotlib", "seaborn"}

----------------------------------------------------------------------------
(* pd.read_csv *)

Digits == {"1", "2"}

\* The fields of a line for a delimiter (no quoting occurs in the inputs).
RECURSIVE Split(_, _)
Split(line, sep) ==
  IF \A i \in 1..Len(line) : line[i] # sep
  THEN <<line>>
  ELSE LET k == CHOOSE i \in 1..Len(line) :
                  /\ line[i] = sep
                  /\ \A j \in 1..(i - 1) : line[j] # sep
       IN  <<SubSeq(line, 1, k - 1)>> \o Split(SubSeq(line, k + 1, Len(line)), sep)

Fields(line, sep) == Len(Split(line, sep))

Max(a, b) == IF a >= b THEN a ELSE b

\* The tokenizer's expected field count: the header's, or the first data
\* row's when that row is longer (the row is not checked against the header).
Width(f, sep) ==
  IF Len(f) >= 2 THEN Max(Fields(f[1], sep), Fields(f[2], sep))
  ELSE Fields(f[1], sep)

\* read_csv raises: EmptyDataError on an empty file, ParserError when a row
\* after the first data row has more fields than expected.
ParseRaises(f, sep) ==
  \/ f = <<>>
  \/ \E i \in 3..Len(f) : Fields(f[i], sep) > Width(f, sep)

\* A line's fields, short rows padded with empty fields up to w.
Padded(line, sep, w) ==
  LET s == Split(line, sep)
  IN  [i \in 1..w |-> IF i <= Len(s) THEN s[i] ELSE <<>>]

\* Number of leading fields of each row that become the implicit index.
LeadingCols(f, sep) == Width(f, sep) - Fields(f[1], sep)

DigitStr(k) == IF k = 1 THEN "1" ELSE IF k = 2 THEN "2" ELSE "3"

\* Column names: an empty header field is "Unnamed: i", a repeated name gets
\* the suffix ".k" (pandas' mangle_dupe_cols).
ColumnName(h, i) ==
  LET k == Cardinality({j \in 1..(i - 1) : h[j] = h[i]})
  IN  IF h[i] = <<>> THEN <<"Unnamed: ", DigitStr(i - 1)>>
      ELSE IF k = 0 THEN h[i]
      ELSE h[i] \o <<".", DigitStr(k)>>

IsNumber(cell) == cell # <<>> /\ \A i \in 1..Len(cell) : cell[i] \in Digits

\* pandas' inferred dtype of a column from its cells (an empty cell is NaN).
InferDtype(cells) ==
  IF Len(cells) = 0 THEN "object"
  ELSE IF \A i \in 1..Len(cells) : cells[i] = <<>> \/ IsNumber(cells[i])
       THEN IF \A i \in 1..Len(cells) : IsNumber(cells[i]) THEN "int64" ELSE "float64"
       ELSE "object"

NoDf == [loaded |-> FALSE, names |-> <<>>, dtypes |-> <<>>, rows |-> <<>>]

\* The DataFrame read_csv returns when it does not raise.  A cell is kept as
\* its text: on the digits drawn here the text determines the number.
ReadCsv(f, sep) ==
  LET h    == Split(f[1], sep)
      n    == Len(h)
      w    == Width(f, sep)
      lead == LeadingCols(f, sep)
      rows == [r \in 1..(Len(f) - 1) |->
                 LET p == Padded(f[r + 1], sep, w)
                 IN  [c \in 1..n |-> p[lead + c]]]
  IN  [loaded |-> TRUE,
       names  |-> [c \in 1..n |-> ColumnName(h, c)],
       dtypes |-> [c \in 1..n |-> InferDtype([r \in 1..Len(rows) |-> rows[r][c]])],
       rows   |-> rows]

----------------------------------------------------------------------------
(* DataFrame operations used by main() *)

\* The dtypes include='number' selects among those read_csv infers here.
NumberDtypes == {"int64", "float64"}

\* The dtypes include=['object', 'category'] selects.
CategoricalDtypes == {"object", "category"}

\* The names of the columns whose dtype is in a set, from column i on, in
\* column order.
RECURSIVE ColsFrom(_, _, _)
ColsFrom(d, i, types) ==
  IF i > Len(d.names) THEN <<>>
  ELSE (IF d.dtypes[i] \in types THEN <<d.names[i]>> ELSE <<>>)
       \o ColsFrom(d, i + 1, types)

\* df.select_dtypes(include='number').columns.tolist()
NumCols(d) == ColsFrom(d, 1, NumberDtypes)

\* [c for c in df.columns if df[c].dtype == 'object' or ... 'category']
CatCols(d) == ColsFrom(d, 1, CategoricalDtypes)

\* duplicated(keep=False): every row that has an equal row is marked.
Duplicated_KeepFalse(rows, i) == \E j \in (1..Len(rows)) \ {i} : rows[j] = rows[i]

\* df.duplicated(): row i repeats an earlier row (keep='first').
Duplicated(rows, i) == \E j \in 1..(i - 1) : rows[j] = rows[i]

RECURSIVE DupRowsFrom(_, _)
DupRowsFrom(rows, i) ==
  IF i > Len(rows) THEN <<>>
  ELSE (IF Duplicated(rows, i) THEN <<rows[i]>> ELSE <<>>) \o DupRowsFrom(rows, i + 1)

\* df[df.duplicated()]
DupRows(d) == DupRowsFrom(d.rows, 1)

\* DataFrame.head()'s default number of rows.
DupExampleRows == 5

FirstRows(s, n) == SubSeq(s, 1, IF Len(s) < n THEN Len(s) ELSE n)

HistFile(c) == <<"hist_">> \o c \o <<".png">>
BoxFile(c)  == <<"box_">> \o c \o <<".png">>
CorrFile    == <<"correlation_matrix.png">>

----------------------------------------------------------------------------
(* main() *)

Init ==
  /\ pc = "import"
  /\ importError \in {"none"} \cup Libs
  /\ \/ exists = FALSE /\ file = <<>>
     \/ exists = TRUE /\ file \in Files
  /\ dirExists \in BOOLEAN
  /\ probed = FALSE
  /\ attempts = <<>>
  /\ mkdirCalled = FALSE
  /\ df = NoDf
  /\ out = <<>>
  /\ dup_count = 0
  /\ dupExamples = <<>>
  /\ col = 0
  /\ figs = 0
  /\ written = <<>>
  /\ exc = "none"

\* Import without its return: the guidance is printed and main() goes on.
Import_NoReturn ==
  /\ pc = "import"
  /\ out' = IF importError # "none" THEN Append(out, "deps_missing") ELSE out
  /\ pc' = "exists"
  /\ UNCHANGED <<importError, exists, file, dirExists, probed, attempts, mkdirCalled,
                 df, dup_count, dupExamples, col, figs, written, exc>>

\* lines 23-33: the imports; on failure the guidance and the error are printed
\* and main() returns.
Import ==
  /\ pc = "import"
  /\ IF importError # "none"
     THEN /\ out' = Append(out, "deps_missing")
          /\ pc' = "done"
     ELSE /\ out' = out
          /\ pc' = "exists"
  /\ UNCHANGED <<importError, exists, file, dirExists, probed, attempts, mkdirCalled,
                 df, dup_count, dupExamples, col, figs, written, exc>>

\* pd.read_csv(csv_path, sep=...) raises; open() of a missing file raises as well.
ReadRaises(sep) == ~exists \/ ParseRaises(file, sep)

\* CheckExists without its return: the message is printed and the load goes on.
CheckExists_NoReturn ==
  /\ pc = "exists"
  /\ probed' = TRUE
  /\ out' = Append(out, IF ~exists THEN "not_found" ELSE "loading")
  /\ pc' = "read"
  /\ UNCHANGED <<importError, exists, file, dirExists, attempts, mkdirCalled,
                 df, dup_count, dupExamples, col, figs, written, exc>>

\* lines 35-42
CheckExists ==
  /\ pc = "exists"
  /\ probed' = TRUE
  /\ IF ~exists
     THEN /\ out' = Append(out, "not_found")
          /\ pc' = "done"
     ELSE /\ out' = Append(out, "loading")
          /\ pc' = "read"
  /\ UNCHANGED <<importError, exists, file, dirExists, attempts, mkdirCalled,
                 df, dup_count, dupExamples, col, figs, written, exc>>

\* lines 44-46: df = pd.read_csv(csv_path)
ReadDefault ==
  /\ pc = "read"
  /\ attempts' = Append(attempts, ",")
  /\ IF ReadRaises(",")
     THEN /\ df' = df
          /\ pc' = "read_semi"
     ELSE /\ df' = ReadCsv(file, ",")
          /\ pc' = "mkdir"
  /\ UNCHANGED <<importError, exists, file, dirExists, probed, mkdirCalled,
                 out, dup_count, dupExamples, col, figs, written, exc>>

\* ReadSemicolon without its return: after the traceback main() goes on.
ReadSemicolon_FallThrough ==
  /\ pc = "read_semi"
  /\ attempts' = Append(attempts, ";")
  /\ df' = IF ReadRaises(";") THEN df ELSE ReadCsv(file, ";")
  /\ out' = IF ReadRaises(";") THEN Append(out, "trace") ELSE out
  /\ pc' = "mkdir"
  /\ UNCHANGED <<importError, exists, file, dirExists, probed, mkdirCalled,
                 dup_count, dupExamples, col, figs, written, exc>>

\* lines 47-53: df = pd.read_csv(csv_path, sep=';'); on failure the traceback
\* is printed and main() returns.
ReadSemicolon ==
  /\ pc = "read_semi"
  /\ attempts' = Append(attempts, ";")
  /\ IF ReadRaises(";")
     THEN /\ df' = df
          /\ out' = Append(out, "trace")
          /\ pc' = "done"
     ELSE /\ df' = ReadCsv(file, ";")
          /\ out' = out
          /\ pc' = "mkdir"
  /\ UNCHANGED <<importError, exists, file, dirExists, probed, mkdirCalled,
                 dup_count, dupExamples, col, figs, written, exc>>

\* lines 55-56
Mkdir ==
  /\ pc = "mkdir"
  /\ mkdirCalled' = TRUE
  /\ dirExists' = TRUE
  /\ pc' = "head"
  /\ UNCHANGED <<importError, exists, file, probed, attempts,
                 df, out, dup_count, dupExamples, col, figs, written, exc>>

Step(section, to) ==
  /\ out' = Append(out, section)
  /\ pc' = to
  /\ UNCHANGED <<importError, exists, file, dirExists, probed, attempts, mkdirCalled,
                 df, dup_count, dupExamples, col, figs, written, exc>>

\* An exception nothing catches: main() and the process end with a traceback.
Raise(e) ==
  /\ exc' = e
  /\ pc' = "crashed"
  /\ UNCHANGED <<importError, exists, file, dirExists, probed, attempts, mkdirCalled,
                 df, out, dup_count, dupExamples, col, figs, written>>

\* lines 58-61
PrintHead ==
  /\ pc = "head"
  /\ Step("head", "shape")

\* lines 63-64
PrintShape ==
  /\ pc = "shape"
  /\ Step("shape", "types")

\* lines 65-67
PrintTypes ==
  /\ pc = "types"
  /\ Step("types", "nulls")

\* lines 69-72
PrintNulls ==
  /\ pc = "nulls"
  /\ Step("nulls", "desc_num")

\* lines 74-77: df.describe(include='number') raises ValueError ("No objects to
\* concatenate") when no column is numeric.
DescribeNumeric ==
  /\ pc = "desc_num"
  /\ IF NumCols(df) = <<>>
     THEN Raise("ValueError")
     ELSE Step("desc_num", "desc_obj")

\* lines 79-82: df.describe(include=['object', 'category']) raises ValueError
\* when no column is of those types.
DescribeNonNumeric ==
  /\ pc = "desc_obj"
  /\ IF CatCols(df) = <<>>
     THEN Raise("ValueError")
     ELSE Step("desc_obj", "dups")

\* lines 84-89
Duplicates ==
  /\ pc = "dups"
  /\ dup_count' = Len(DupRows(df))
  /\ IF Len(DupRows(df)) > 0
     THEN /\ dupExamples' = FirstRows(DupRows(df), DupExampleRows)
          /\ out' = out \o <<"dups", "dup_examples">>
     ELSE /\ dupExamples' = dupExamples
          /\ out' = Append(out, "dups")
  /\ pc' = "cats"
  /\ UNCHANGED <<importError, exists, file, dirExists, probed, attempts, mkdirCalled,
                 df, col, figs, written, exc>>

\* lines 91-97
CategoricalCounts ==
  /\ pc = "cats"
  /\ IF CatCols(df) # <<>>
     THEN Step("cat_counts", "plots")
     ELSE /\ pc' = "plots"
          /\ UNCHANGED <<importError, exists, file, dirExists, probed, attempts,
                         mkdirCalled, df, out, dup_count, dupExamples, col, figs,
                         written, exc>>

\* lines 100-102 and 131-132
PlotStart ==
  /\ pc = "plots"
  /\ IF NumCols(df) # <<>>
     THEN /\ out' = Append(out, "plot_notice")
          /\ col' = 1
          /\ pc' = "hist_fig"
     ELSE /\ out' = Append(out, "no_numeric")
          /\ col' = col
          /\ pc' = "finish"
  /\ UNCHANGED <<importError, exists, file, dirExists, probed, attempts, mkdirCalled,
                 df, dup_count, dupExamples, figs, written, exc>>

\* plt.figure(...) and the drawing calls up to tight_layout()
Figure(to) ==
  /\ figs' = figs + 1
  /\ pc' = to
  /\ UNCHANGED <<importError, exists, file, dirExists, probed, attempts, mkdirCalled,
                 df, out, dup_count, dupExamples, col, written, exc>>

\* plt.savefig(fn)
Save(fn, to) ==
  /\ written' = Append(written, fn)
  /\ pc' = to
  /\ UNCHANGED <<importError, exists, file, dirExists, probed, attempts, mkdirCalled,
                 df, out, dup_count, dupExamples, col, figs, exc>>

\* plt.close(): closes the current figure
Close(to, nextCol) ==
  /\ figs' = IF figs > 0 THEN figs - 1 ELSE 0
  /\ pc' = to
  /\ col' = nextCol
  /\ UNCHANGED <<importError, exists, file, dirExists, probed, attempts, mkdirCalled,
                 df, out, dup_count, dupExamples, written, exc>>

\* lines 104-107
HistFigure ==
  /\ pc = "hist_fig"
  /\ Figure("hist_save")

\* lines 108-109
HistSave ==
  /\ pc = "hist_save"
  /\ Save(HistFile(NumCols(df)[col]), "hist_close")

\* HistClose without plt.close(): the histogram's figure stays open.
HistClose_Leak ==
  /\ pc = "hist_close"
  /\ pc' = "box_fig"
  /\ UNCHANGED <<importError, exists, file, dirExists, probed, attempts, mkdirCalled,
                 df, out, dup_count, dupExamples, col, figs, written, exc>>

\* line 110
HistClose ==
  /\ pc = "hist_close"
  /\ Close("box_fig", col)

\* lines 112-115
BoxFigure ==
  /\ pc = "box_fig"
  /\ Figure("box_save")

\* lines 116-117
BoxSave ==
  /\ pc = "box_save"
  /\ Save(BoxFile(NumCols(df)[col]), "box_close")

\* line 118, then the next column (line 103) or the end of the loop
BoxClose ==
  /\ pc = "box_close"
  /\ IF col < Len(NumCols(df))
     THEN Close("hist_fig", col + 1)
     ELSE Close("corr", col)

\* lines 121-127
CorrFigure ==
  /\ pc = "corr"
  /\ IF Len(NumCols(df)) > 1
     THEN /\ out' = Append(out, "corr_notice")
          /\ figs' = figs + 1
          /\ pc' = "corr_save"
     ELSE /\ out' = out
          /\ figs' = figs
          /\ pc' = "finish"
  /\ UNCHANGED <<importError, exists, file, dirExists, probed, attempts, mkdirCalled,
                 df, dup_count, dupExamples, col, written, exc>>

\* line 128
CorrSave ==
  /\ pc = "corr_save"
  /\ Save(CorrFile, "corr_close")

\* line 129
CorrClose ==
  /\ pc = "corr_close"
  /\ Close("finish", col)

\* line 134
Finish ==
  /\ pc = "finish"
  /\ Step("completed", "done")

Next ==
  \/ Import
  \/ CheckExists
  \/ ReadDefault
  \/ ReadSemicolon
  \/ Mkdir
  \/ PrintHead
  \/ PrintShape
  \/ PrintTypes
  \/ PrintNulls
  \/ DescribeNumeric
  \/ DescribeNonNumeric
  \/ Duplicates
  \/ CategoricalCounts
  \/ PlotStart
  \/ HistFigure
  \/ HistSave
  \/ HistClose
  \/ BoxFigure
  \/ BoxSave
  \/ BoxClose
  \/ CorrFigure
  \/ CorrSave
  \/ CorrClose
  \/ Finish

Spec == Init /\ [][Next]_vars

----------------------------------------------------------------------------
(* Properties *)

Terminated == pc \in {"done", "crashed"}

\* K: the number of numeric columns of the loaded Dataset.
K == Len(NumCols(df))

Range(s) == {s[i] : i \in 1..Len(s)}

Printed(section) == section \in Range(out)

\* C1: when datos_sinteticos.csv does not exist, main() prints the not-found
\* message and returns: no parse is attempted, the output directory is not
\* created, no report section is printed and no image file is written.
C1_MissingFile ==
  (importError = "none" /\ ~exists) =>
    /\ pc \in {"import", "exists", "done"}
    /\ attempts = <<>>
    /\ ~mkdirCalled
    /\ written = <<>>
    /\ ~df.loaded
    /\ exc = "none"
    /\ out = IF probed THEN <<"not_found">> ELSE <<>>
    /\ (probed => pc = "done")

C1_Witness ==
  /\ importError = "none" /\ ~exists
  /\ pc = "done" /\ probed /\ out = <<"not_found">>

\* A file whose columns are separated by ';': every line holds the same
\* number (at least two) of ';'-separated fields, and no comma.
SemicolonDelimited(f) ==
  /\ f # <<>>
  /\ Fields(f[1], ";") >= 2
  /\ \A i \in 1..Len(f) :
       /\ Fields(f[i], ";") = Fields(f[1], ";")
       /\ Fields(f[i], ",") = 1

\* C2: for every input file whose correct column split is by ';', the Dataset
\* used by the steps after the load is the result of the semicolon parse (with
\* the column count of a manual split on ';'), not of the default parse.
C2_SemicolonFileUsesSemicolonParse ==
  (df.loaded /\ SemicolonDelimited(file)) =>
    /\ df = ReadCsv(file, ";")
    /\ Len(df.names) = Fields(file[1], ";")

\* C3: at most two parse attempts are made, the default delimiter and then the
\* semicolon; the semicolon attempt is made if and only if the default attempt
\* raised; when both raise, the traceback is printed and main() returns with no
\* report section printed, no output directory created and no image written.
C3_TwoAttempts ==
  /\ attempts \in {<<>>, <<",">>, <<",", ";">>}
  /\ (Len(attempts) = 2 => ParseRaises(file, ","))
  /\ ((Len(attempts) = 1 /\ ParseRaises(file, ",")) => pc = "read_semi")
  /\ ((Len(attempts) = 2 /\ ParseRaises(file, ";")) =>
        /\ pc = "done"
        /\ out = <<"loading", "trace">>
        /\ ~mkdirCalled
        /\ written = <<>>
        /\ ~df.loaded
        /\ exc = "none")

C3_Witness ==
  /\ file # <<>>
  /\ attempts = <<",", ";">> /\ ParseRaises(file, ",") /\ ParseRaises(file, ";")
  /\ pc = "done" /\ out = <<"loading", "trace">>

\* C4: when one of pandas, matplotlib, seaborn fails to import, main() prints
\* the installation guidance with the error and returns: the input file is never
\* checked or parsed, the output directory is not created, and no report
\* section or image file is produced.
C4_MissingDependency ==
  (importError # "none") =>
    /\ pc \in {"import", "done"}
    /\ ~probed
    /\ attempts = <<>>
    /\ ~mkdirCalled
    /\ written = <<>>
    /\ ~df.loaded
    /\ exc = "none"
    /\ out = IF pc = "done" THEN <<"deps_missing">> ELSE <<>>

C4_Witness ==
  /\ importError = "seaborn" /\ exists /\ ~ParseRaises(file, ",")
  /\ pc = "done" /\ out = <<"deps_missing">>

\* C5: a run on a Dataset with K >= 1 numeric columns creates exactly 2*K
\* hist_/box_ image files, one pair per numeric column, named from the column
\* name, whatever the non-numeric columns are (including none).
C5_TwoImagesPerNumericColumn ==
  (Terminated /\ df.loaded /\ K >= 1) =>
    /\ Range(written) \ {CorrFile} =
         {HistFile(c) : c \in Range(NumCols(df))} \cup
         {BoxFile(c) : c \in Range(NumCols(df))}
    /\ Cardinality(Range(written) \ {CorrFile}) = 2 * K

\* C6: correlation_matrix.png is written by a run if and only if K >= 2; when
\* written, it is written once and after every hist_/box_ file of the run.
C6_CorrelationIffTwoNumeric ==
  (Terminated /\ df.loaded) =>
    /\ (CorrFile \in Range(written)) <=> (K >= 2)
    /\ (CorrFile \in Range(written) =>
          /\ Len(written) = 2 * K + 1
          /\ written[Len(written)] = CorrFile
          /\ \A i \in 1..(Len(written) - 1) : written[i] # CorrFile)

\* C7: for a loaded Dataset with no numeric column the run prints the
\* no-numeric-columns notice, writes no file into the output directory (which
\* it has created) and ends with the completion message.
C7_NoNumericColumns ==
  (Terminated /\ df.loaded /\ K = 0) =>
    /\ Printed("no_numeric")
    /\ out # <<>> /\ out[Len(out)] = "completed"
    /\ dirExists
    /\ written = <<>>

Occurrences(rows, r) == Cardinality({i \in 1..Len(rows) : rows[i] = r})

\* C8: the duplicate section prints the number of rows that repeat an earlier
\* row; the example block is printed if and only if that number is greater
\* than 0, shows at most 5 rows, each one a row of the Dataset that repeats an
\* earlier row; with no duplicate row the count is 0 and no example is printed.
C8_Duplicates ==
  IF Printed("dups")
  THEN /\ dup_count = Len(df.rows) - Cardinality(Range(df.rows))
       /\ Printed("dup_examples") <=> (dup_count > 0)
       /\ Printed("dup_examples") <=> (dupExamples # <<>>)
       /\ Len(dupExamples) <= 5
       /\ Len(dupExamples) <= dup_count
       /\ \A k \in 1..Len(dupExamples) : Occurrences(df.rows, dupExamples[k]) >= 2
       /\ ((\A i, j \in 1..Len(df.rows) : df.rows[i] = df.rows[j] => i = j) =>
             dup_count = 0 /\ ~Printed("dup_examples"))
  ELSE ~Printed("dup_examples") /\ dupExamples = <<>>

C8_Witness ==
  /\ pc = "done" /\ Printed("dups") /\ Printed("dup_examples")
  /\ dup_count > 5 /\ Len(dupExamples) = 5

C8_WitnessNoDuplicates ==
  /\ pc = "done" /\ Printed("dups") /\ ~Printed("dup_examples")
  /\ Len(df.rows) >= 2 /\ dup_count = 0

\* The report sections of a complete run, in order.
Sections ==
  <<"loading", "head", "shape", "types", "nulls", "desc_num", "desc_obj", "dups",
    "cat_counts", "plots", "completed">>

\* The section a printed line belongs to.
SectionOf(line) ==
  IF line = "dup_examples" THEN "dups"
  ELSE IF line \in {"plot_notice", "corr_notice", "no_numeric"} THEN "plots"
  ELSE line

\* C9: every run whose load succeeded prints every report section and the
\* completion message, in the fixed order head, shape, types, nulls, numeric
\* statistics, non-numeric statistics, duplicates, categorical counts, plots,
\* completion: the steps after the load have no error outcome.
C9_LoadedRunCompletes ==
  /\ df.loaded => pc # "crashed"
  /\ (df.loaded /\ Terminated) =>
       /\ \A k \in 1..Len(Sections) : \E i \in 1..Len(out) : SectionOf(out[i]) = Sections[k]
       /\ out[Len(out)] = "completed"

\* The hist_/box_ files of a run in the order the loop saves them.
RECURSIVE PlotOrder(_)
PlotOrder(cols) ==
  IF cols = <<>> THEN <<>>
  ELSE <<HistFile(Head(cols)), BoxFile(Head(cols))>> \o PlotOrder(Tail(cols))

\* C10: numeric columns are plotted in column order, histogram before boxplot,
\* and each figure is closed after its file is saved and before the next one is
\* opened: at most one figure is open at any point, and none when the run
\* prints the completion message.
C10_OneFigureAtATime ==
  /\ figs <= 1
  /\ (figs = 1) <=> (pc \in {"hist_save", "hist_close", "box_save", "box_close",
                             "corr_save", "corr_close"})
  /\ (pc \in {"finish", "done"} => figs = 0)
  /\ Len(written) <= 2 * K + 1
  /\ \A i \in 1..Len(written) : i <= 2 * K => written[i] = PlotOrder(NumCols(df))[i]
  /\ (pc \in {"hist_close", "box_close", "corr_close"} =>
        Len(written) = (IF pc = "hist_close" THEN 2 * col - 1
                        ELSE IF pc = "box_close" THEN 2 * col ELSE 2 * K + 1))

C10_Witness ==
  /\ pc = "done" /\ K >= 2 /\ figs = 0
  /\ Len(written) = 2 * K + 1
  /\ Printed("completed")

====
